---- MODULE Spec2Model ----
(***************************************************************************)
(* DeepSkies for Windows (DSWIN.C): the WM_PAINT render pass of DSWndProc, *)
(* the catalog accessor GetStar, the label helper rtrim and the last step  *)
(* of the projector EQConvert.                                             *)
(*                                                                         *)
(* Numbers.  Magnitudes, right ascensions, declinations and symbol sizes   *)
(* are doubles in the program; here they are integers counting tenths      *)
(* (6.5 is 65).  Screen positions before the cast to int are integers      *)
(* counting quarters of a pixel.  Text is a sequence of one-character      *)
(* strings; LF is the newline character.                                   *)
(***************************************************************************)
EXTENDS Integers, Sequences, FiniteSets, TLC

VARIABLES
    catalog,    \* STARS.DAT: the whole 61-byte records, one line id each
    tailBytes,  \* STARS.DAT: bytes after the last whole record
    textMode,   \* fopen(.., "r"): TRUE when the C runtime opens it as text
    DsC,        \* DSCONTROL DsC (the fields the render pass uses)
    Star,       \* STARDATA Star
    fp_stars,   \* FILE *fp_stars: "NULL", "open" or "closed"
    floc,       \* long floc
    i,          \* long i of DSWndProc
    pc,         \* position of DSWndProc in WM_PAINT
    ev,         \* this pass: the calls made on the store, in order
    msgs,       \* this pass: the MessageBox texts, in order
    out         \* this pass: the SetPixel / Ellipse / TextOut calls, in order

vars == <<catalog, tailBytes, textMode, DsC, Star, fp_stars, floc, i, pc, ev, msgs, out>>

----------------------------------------------------------------------------
(* Bounds of the model *)

MaxRecords == 7     \* whole records in STARS.DAT, the 5 header records included
MaxTail == 1        \* stray bytes after the last whole record

----------------------------------------------------------------------------
(* Program constants *)

streclen == 61      \* int streclen = 61
HeaderRecords == 5  \* floc / streclen - 5
LabelWidth == 17    \* strncpy(Star.Label, SL, 17)

Min(a, b) == IF a < b THEN a ELSE b

Spaces(n) == [k \in 1..n |-> " "]

PadRight(s, n) == IF Len(s) >= n THEN SubSeq(s, 1, n) ELSE s \o Spaces(n - Len(s))

----------------------------------------------------------------------------
(* The catalog store.  Each line is a 61-byte record made of the fixed     *)
(* fields GetStar cuts out; magTenths is the magnitude the text of the     *)
(* mag field stands for (0 for text that is no number).                    *)

Polaris == <<"P","o","l","a","r","i","s">>

LineShape(id) ==
    CASE id = "hdr" ->
           [label |-> <<"H","D","R">>, ra |-> <<>>, dec |-> <<>>, mag |-> <<>>,
            cls |-> <<>>, pmra |-> <<>>, tail |-> <<" "," "," ","CR","LF">>,
            magTenths |-> 0]
      [] id = "polaris" ->
           [label |-> Polaris, ra |-> <<"3","7",".","9">>,
            dec |-> <<"8","9",".","2">>, mag |-> <<" ","2",".","0","0">>,
            cls |-> <<"F","7">>, pmra |-> <<"4","4",".","2">>,
            tail |-> <<"-","1","1","CR","LF">>, magTenths |-> 20]
      [] id = "faint" ->
           [label |-> <<" ","H","D"," ","1">>, ra |-> <<"3","0","0",".","5">>,
            dec |-> <<"-","4","0",".","5">>, mag |-> <<"9",".","0">>,
            cls |-> <<"M","1">>, pmra |-> <<"0",".","0">>,
            tail |-> <<"0",".","0","LF"," ">>, magTenths |-> 90]
      [] id = "dim" ->
           [label |-> <<>>, ra |-> <<"1","2",".","0">>,
            dec |-> <<"+","5",".","5">>, mag |-> <<"6",".","2">>,
            cls |-> <<"K","0">>, pmra |-> <<"1",".","5">>,
            tail |-> <<"2",".","5","0","0">>, magTenths |-> 62]
      [] id = "nova" ->
           [label |-> <<"A","B","C","D","E","F","G","H","I","J","K","L","M","N","O","P","Q">>,
            ra |-> <<"1","0","1",".","3">>, dec |-> <<"-","1","6",".","7">>,
            mag |-> <<"-","8",".","0">>,
            cls |-> <<"A","1">>, pmra |-> <<"-","5","4","6">>,
            tail |-> <<"-","1","LF"," "," ">>, magTenths |-> -80]
      [] id = "deep" ->
           [label |-> <<"N","G","C"," ","7">>, ra |-> <<"2","0",".","0">>,
            dec |-> <<"4","0",".","0">>, mag |-> <<"1","6",".","0">>,
            cls |-> <<>>, pmra |-> <<>>,
            tail |-> <<" "," "," ","CR","LF">>, magTenths |-> 160]
      [] OTHER ->
           [label |-> <<"B","a","d">>, ra |-> <<"x">>, dec |-> <<"-">>,
            mag |-> <<"m","1",".","5">>, cls |-> <<"?","?">>, pmra |-> <<".">>,
            tail |-> <<" "," "," "," ","LF">>, magTenths |-> 0]

StarLineIds == {"polaris", "faint", "dim", "nova", "deep", "bad"}

LineBytes(id) ==
    LET s == LineShape(id)
    IN  PadRight(s.label, LabelWidth) \o PadRight(s.ra, 11) \o PadRight(s.dec, 12)
        \o PadRight(s.mag, 5) \o PadRight(s.cls, 2) \o PadRight(s.pmra, 9) \o s.tail

StoreLen == Len(catalog) * streclen + tailBytes

\* The bytes of STARS.DAT from 0-based offset pos, at most room of them and
\* none past the end of the record (or of the stray tail) that holds pos.
Chunk(pos, room) ==
    LET r    == pos \div streclen
        w    == pos % streclen
        line == IF r < Len(catalog) THEN LineBytes(catalog[r + 1]) ELSE Spaces(tailBytes)
    IN  SubSeq(line, w + 1, Min(Len(line), w + room))

\* The bytes of STARS.DAT from offset pos, at most room of them.
RECURSIVE StoreBytes(_, _)
StoreBytes(pos, room) ==
    IF room <= 0 \/ pos < 0 \/ pos >= StoreLen THEN <<>>
    ELSE LET c == Chunk(pos, room)
         IN  c \o StoreBytes(pos + Len(c), room - Len(c))

\* The stores of the model: up to 5 header records, then star records.
Catalogs ==
    UNION { { [k \in 1..n |-> IF k <= HeaderRecords THEN "hdr" ELSE f[k]] :
                f \in [(HeaderRecords + 1)..n -> StarLineIds] } : n \in 0..MaxRecords }

\* The client rectangles GetClientRect reports, <<right, bottom>>.
DisplaySizes == { <<640, 480>>, <<101, 75>> }

\* tX * xyScale and tY * xyScale of EQConvert, in quarters of a pixel: the
\* outcome of the trigonometry of lines 388-429, which integers do not express.
PlanarOffsets == { <<7, -5>>, <<-1283, 2>> }

----------------------------------------------------------------------------
(* C library calls *)

Digits == {"0", "1", "2", "3", "4", "5", "6", "7", "8", "9"}

DigitVal(c) ==
    CASE c = "0" -> 0 [] c = "1" -> 1 [] c = "2" -> 2 [] c = "3" -> 3
      [] c = "4" -> 4 [] c = "5" -> 5 [] c = "6" -> 6 [] c = "7" -> 7
      [] c = "8" -> 8 [] OTHER -> 9

RECURSIVE SkipSpaces(_)
SkipSpaces(s) ==
    IF s # <<>> /\ Head(s) \in {" ", "CR", "LF"} THEN SkipSpaces(Tail(s)) ELSE s

RECURSIVE DigitsValue(_, _)
DigitsValue(s, acc) ==
    IF s # <<>> /\ Head(s) \in Digits
    THEN DigitsValue(Tail(s), acc * 10 + DigitVal(Head(s)))
    ELSE acc

RECURSIVE DropDigits(_)
DropDigits(s) == IF s # <<>> /\ Head(s) \in Digits THEN DropDigits(Tail(s)) ELSE s

\* atof, in tenths: blanks, a sign, digits, a point and the first digit after
\* it (the catalog's numbers carry no further nonzero digit); text that is no
\* number gives 0.0.
atof(S) ==
    LET t  == SkipSpaces(S)
        u  == IF t # <<>> /\ Head(t) \in {"-", "+"} THEN Tail(t) ELSE t
        r  == DropDigits(u)
        fd == IF Len(r) >= 2 /\ r[1] = "." /\ r[2] \in Digits THEN DigitVal(r[2]) ELSE 0
        v  == DigitsValue(u, 0) * 10 + fd
    IN  IF t # <<>> /\ Head(t) = "-" THEN -v ELSE v

\* strncpy(S, SL + start, n); S[n] = 0: the characters of the C string SL from
\* 0-based position start, at most n of them.  Every line of the model is at
\* least 59 characters long, so the fields are cut from the line itself.
strncpy(SL, start, n) == SubSeq(SL, start + 1, Min(start + n, Len(SL)))

\* fgets(SL, n, fp_stars) with the stream at byte pos: at most n - 1
\* characters, ending after a newline or at the end of the file.  A stream
\* opened as text (the Windows runtime) hands the pair CR LF over as the one
\* character LF; a stream without translation hands over every byte.
\* line is what SL holds (<<>> is NULL), used the bytes taken from the file.
ReadLine(bytes, n) ==
    LET nl == {k \in 1..Len(bytes) : bytes[k] = "LF"}
        k  == CHOOSE m \in nl : \A j \in nl : m <= j
        m  == Min(Len(bytes), n - 1)
    IN  IF nl # {} /\ textMode /\ k >= 2 /\ bytes[k - 1] = "CR"
          THEN [line |-> SubSeq(bytes, 1, k - 2) \o <<"LF">>, used |-> k]
        ELSE IF nl # {} /\ k <= n - 1
          THEN [line |-> SubSeq(bytes, 1, k), used |-> k]
        ELSE [line |-> SubSeq(bytes, 1, m), used |-> m]

fgets(n, pos) == ReadLine(StoreBytes(pos, n), n)

\* A faulty CastInt: rounds down instead of toward zero.
CastInt_Floor(q) == q \div 4

\* (int) of a double given in quarters: the fraction is discarded.
CastInt(q) == IF q >= 0 THEN q \div 4 ELSE -((-q) \div 4)

----------------------------------------------------------------------------
(* rtrim: not called by the program, both calls are commented out *)

RECURSIVE rtrimFrom(_, _)
rtrimFrom(target, k) ==
    IF k > 0 /\ target[k + 1] = " " THEN rtrimFrom(SubSeq(target, 1, k), k - 1)
    ELSE target

rtrim(target) == rtrimFrom(target, Len(target) - 1)

----------------------------------------------------------------------------
(* GetStar *)

\* A faulty Fspot: skips one record too many.
Fspot_SkipsSix(index) == (index + 5) * streclen

Fspot(index) == (index + 4) * streclen

\* The fields of STARDATA the render pass reads, cut from the line SL.
ParseStar(SL) ==
    [Label |-> SubSeq(strncpy(SL, 0, LabelWidth), 1, Min(LabelWidth - 1, Len(SL))),
     RA    |-> atof(strncpy(SL, 17, 11)),
     Dec   |-> atof(strncpy(SL, 28, 12)),
     Mag   |-> atof(strncpy(SL, 40, 5))]

\* GetStar(index): io is what the file system does to this call ("ok", "seek":
\* fseek fails, "read": fgets fails).  Gives the new Star and the call's record.
GetStar(index, io) ==
    LET fspot  == Fspot(index)
        got    == fgets(streclen, fspot)
        SL     == IF io = "ok" THEN got.line ELSE <<>>
        loaded == io = "ok" /\ SL # <<>>
    IN  [Star |-> IF loaded THEN ParseStar(SL) ELSE Star,
         call |-> [op |-> "read", idx |-> index, off |-> fspot, n |-> Len(SL),
                   used |-> IF io = "ok" THEN got.used ELSE 0, ok |-> loaded]]

----------------------------------------------------------------------------
(* EQConvert, its last step, and the drawing of one star *)

\* DsC.CX, DsC.CY from the planar offsets q = <<tX * xyScale, tY * xyScale>>.
EQConvert(q) ==
    [CX |-> CastInt(2 * DsC.MaxX + q[1]), CY |-> CastInt(2 * DsC.MaxY + q[2])]

Unclamped(lim, mag) == IF lim <= 150 THEN lim - mag + 5 ELSE 150 - mag + 5

\* A faulty SymbolSize: the upper clamp is missing.
SymbolSize_NoUpperClamp(lim, mag) ==
    LET sz == Unclamped(lim, mag)
    IN  IF sz < 10 THEN 10 ELSE sz

SymbolSize(lim, mag) ==
    LET sz  == Unclamped(lim, mag)
        lo  == IF sz < 10 THEN 10 ELSE sz
    IN  IF lo > 80 THEN 80 ELSE lo

\* A faulty Qualifies: the comparison is turned around.
Qualifies_Inverted(lim, mag) == mag >= lim

Qualifies(lim, mag) == mag <= lim

\* A faulty Labelled: the comparison is turned around.
Labelled_Inverted(lim, mag) == mag > lim - 30

Labelled(lim, mag) == mag < lim - 30

\* The calls on the device context for the star in st at loop index idx.
DrawStar(st, idx, q) ==
    LET c   == EQConvert(q)
        sz  == SymbolSize(DsC.Mag, st.Mag)
        r   == sz \div 10
        sym == [kind |-> IF sz = 10 THEN "point" ELSE "circle", idx |-> idx,
                x |-> c.CX, y |-> c.CY, r |-> r, sz |-> sz, mag |-> st.Mag,
                label |-> <<>>, qx |-> 2 * DsC.MaxX + q[1], qy |-> 2 * DsC.MaxY + q[2]]
        txt == [sym EXCEPT !.kind = "text", !.x = c.CX + r, !.y = c.CY - r,
                           !.label = st.Label]
    IN  IF ~Qualifies(DsC.Mag, st.Mag) THEN <<>>
        ELSE IF Labelled(DsC.Mag, st.Mag) THEN <<sym, txt>> ELSE <<sym>>

----------------------------------------------------------------------------
(* WM_PAINT *)

Misaligned(len) == len % streclen # 0

\* A faulty StarCount: one header record too few is taken off.
StarCount_FourHeaders(len) == (len \div streclen) - (HeaderRecords - 1)

StarCount(len) == (len \div streclen) - HeaderRecords

Call(op) == [op |-> op, idx |-> 0, off |-> 0, n |-> 0, used |-> 0, ok |-> TRUE]

\* GetClientRect, BeginPaint, fopen.
PaintBegin ==
    /\ pc \in {"idle", "done"}
    /\ \E size \in DisplaySizes, opened \in BOOLEAN :
         /\ DsC' = [DsC EXCEPT !.MaxX = size[1], !.MaxY = size[2]]
         /\ fp_stars' = IF opened THEN "open" ELSE "NULL"
         /\ ev' = <<[Call("fopen") EXCEPT !.ok = opened]>>
         /\ msgs' = IF opened THEN <<>> ELSE <<"Unable to open data file!">>
         /\ pc' = IF opened THEN "opened" ELSE "done"
    /\ out' = <<>>
    /\ UNCHANGED <<catalog, tailBytes, textMode, Star, floc, i>>

\* A faulty CheckIntegrity: the else is missing, the loop runs after the message.
CheckIntegrity_FallThrough ==
    /\ pc = "opened"
    /\ floc' = StoreLen
    /\ ev' = Append(ev, [Call("validate") EXCEPT !.off = StoreLen,
                                                  !.ok = ~Misaligned(StoreLen)])
    /\ msgs' = IF Misaligned(StoreLen) THEN Append(msgs, "DATA FILE ERROR!") ELSE msgs
    /\ DsC' = [DsC EXCEPT !.Stars = StarCount(StoreLen)]
    /\ i' = 1
    /\ pc' = "loop"
    /\ UNCHANGED <<catalog, tailBytes, textMode, Star, fp_stars, out>>

\* CHECK DATAFILE INTEGRITY: fseek to the end, ftell, the test of floc.
CheckIntegrity ==
    /\ pc = "opened"
    /\ floc' = StoreLen
    /\ ev' = Append(ev, [Call("validate") EXCEPT !.off = StoreLen,
                                                  !.ok = ~Misaligned(StoreLen)])
    /\ IF Misaligned(StoreLen)
       THEN /\ msgs' = Append(msgs, "DATA FILE ERROR!")
            /\ pc' = "close"
            /\ UNCHANGED <<DsC, i>>
       ELSE /\ DsC' = [DsC EXCEPT !.Stars = StarCount(StoreLen)]
            /\ i' = 1
            /\ pc' = "loop"
            /\ UNCHANGED msgs
    /\ UNCHANGED <<catalog, tailBytes, textMode, Star, fp_stars, out>>

\* One pass of the for loop: GetStar(i), then the drawing.
PaintStar ==
    /\ pc = "loop"
    /\ i <= DsC.Stars
    /\ \E io \in {"ok", "seek", "read"}, q \in PlanarOffsets :
         LET g    == GetStar(i, io)
             draw == DrawStar(g.Star, i, q)
         IN  /\ Star' = g.Star
             /\ ev' = Append(ev, g.call)
             /\ out' = out \o draw
             /\ DsC' = IF draw = <<>> THEN DsC
                       ELSE [DsC EXCEPT !.CX = draw[1].x, !.CY = draw[1].y]
    /\ i' = i + 1
    /\ UNCHANGED <<catalog, tailBytes, textMode, fp_stars, floc, pc, msgs>>

\* A faulty LoopEnd: the handler leaves after the loop, before fclose.
LoopEnd_Return ==
    /\ pc = "loop"
    /\ i > DsC.Stars
    /\ pc' = "done"
    /\ UNCHANGED <<catalog, tailBytes, textMode, DsC, Star, fp_stars, floc, i, ev, msgs, out>>

\* The for loop ends.
LoopEnd ==
    /\ pc = "loop"
    /\ i > DsC.Stars
    /\ pc' = "close"
    /\ UNCHANGED <<catalog, tailBytes, textMode, DsC, Star, fp_stars, floc, i, ev, msgs, out>>

\* fclose(fp_stars), then the objects are discarded and EndPaint.
CloseStore ==
    /\ pc = "close"
    /\ fp_stars' = "closed"
    /\ ev' = Append(ev, Call("fclose"))
    /\ pc' = "done"
    /\ UNCHANGED <<catalog, tailBytes, textMode, DsC, Star, floc, i, msgs, out>>

\* After WM_CREATE: the globals are zero, DsC.Mag is 6.5.
InitWith(lim) ==
    /\ catalog \in Catalogs
    /\ tailBytes \in 0..MaxTail
    /\ textMode \in BOOLEAN
    /\ DsC = [Mag |-> lim, MaxX |-> 0, MaxY |-> 0, CX |-> 0, CY |-> 0, Stars |-> 0]
    /\ Star = [Label |-> <<>>, RA |-> 0, Dec |-> 0, Mag |-> 0]
    /\ fp_stars = "NULL"
    /\ floc = 0
    /\ i = 0
    /\ pc = "idle"
    /\ ev = <<>>
    /\ msgs = <<>>
    /\ out = <<>>

Init == InitWith(65)

Next == PaintBegin \/ CheckIntegrity \/ PaintStar \/ LoopEnd \/ CloseStore

Spec == Init /\ [][Next]_vars

\* The same program with the limiting magnitude set by the view-state handlers.
LimitingMagnitudes == {-50, 65, 300}

InitView == \E lim \in LimitingMagnitudes : InitWith(lim)

SpecView == InitView /\ [][Next]_vars

----------------------------------------------------------------------------
(* What a pass has done so far *)

Opened == ev # <<>> /\ ev[1].op = "fopen" /\ ev[1].ok

Validations == {k \in DOMAIN ev : ev[k].op = "validate"}

Reads == {k \in DOMAIN ev : ev[k].op = "read"}

GoodReads == {k \in Reads : ev[k].ok}

Closes == {k \in DOMAIN ev : ev[k].op = "fclose"}

Symbols == {d \in DOMAIN out : out[d].kind \in {"point", "circle"}}

DrawnFor(idx) == {d \in DOMAIN out : out[d].idx = idx}

\* The 61 bytes of the on-disk record that holds star idx.
RecordOf(idx) == LineBytes(catalog[idx + 5])

----------------------------------------------------------------------------
(* C1: in a render pass no drawing call of any kind is made for an index   *)
(* whose read failed (seek failure or short read); the leftover contents   *)
(* of Star are never drawn.                                                *)
C1_FailedReadDrawsNothing ==
    \A k \in Reads : ~ev[k].ok => DrawnFor(ev[k].idx) = {}

----------------------------------------------------------------------------
(* C2: validation of a store of byte length L: a format error when L is    *)
(* not a multiple of 61, otherwise the star count is (L / 61) - 5; 61*7    *)
(* gives 2 stars and 61*7 + 1 a format error.                              *)
C2_Validate ==
    Validations # {} =>
        /\ (StoreLen % 61 # 0 => msgs = <<"DATA FILE ERROR!">> /\ pc \in {"close", "done"})
        /\ (StoreLen % 61 = 0 =>
                msgs = <<>> /\ 61 * (DsC.Stars + 5) = StoreLen /\ pc \in {"loop", "close", "done"})
        /\ (StoreLen = 61 * 7 => DsC.Stars = 2)
        /\ (StoreLen = 61 * 7 + 1 => msgs # <<>>)

C2_Witness == pc = "loop" /\ StoreLen = 61 * 7 /\ DsC.Stars = 2 /\ msgs = <<>>

----------------------------------------------------------------------------
(* C3: when the store's length is not a multiple of 61 the pass shows      *)
(* exactly one notification, reads nothing from the catalog and draws      *)
(* nothing.                                                                *)
C3_MisalignedAborts ==
    (Validations # {} /\ StoreLen % 61 # 0) =>
        /\ Len(msgs) = 1
        /\ Reads = {}
        /\ out = <<>>

C3_Witness ==
    /\ pc = "done" /\ Opened /\ StoreLen % 61 # 0 /\ Len(catalog) = 7
    /\ Len(msgs) = 1 /\ Reads = {} /\ out = <<>>

----------------------------------------------------------------------------
(* C4: a pass that opens the store closes it before it ends, on every      *)
(* path; validation comes after the open and before any read, and no read  *)
(* comes after the close.                                                  *)
C4_OpenValidateReadClose ==
    /\ \A k \in Validations : k = 2 /\ Opened
    /\ \A k \in Reads :
         /\ Opened
         /\ \E j \in Validations : j < k /\ ev[j].ok
         /\ \A j \in Closes : k < j
    /\ (pc = "done" /\ Opened) =>
         /\ fp_stars = "closed"
         /\ Cardinality(Closes) = 1
         /\ Len(ev) \in Closes
         /\ Validations # {}
    /\ (pc \in {"opened", "loop", "close"}) => (Opened /\ fp_stars = "open" /\ Closes = {})

C4_Witness ==
    /\ pc = "done" /\ Opened /\ fp_stars = "closed"
    /\ GoodReads # {} /\ Reads # GoodReads

----------------------------------------------------------------------------
(* C5: a star whose magnitude is above the limiting magnitude is not       *)
(* drawn, every star read with magnitude at most the limit gets one        *)
(* symbol, and the drawing calls come in ascending catalog index order.    *)
C5_FilterAndOrder ==
    /\ \A k \in GoodReads :
         LET mag == LineShape(catalog[ev[k].idx + 5]).magTenths
         IN  /\ mag > DsC.Mag => DrawnFor(ev[k].idx) = {}
             /\ mag <= DsC.Mag => Cardinality(DrawnFor(ev[k].idx) \cap Symbols) = 1
    /\ \A d \in DOMAIN out : out[d].mag <= DsC.Mag /\ out[d].idx \in 1..DsC.Stars
    /\ \A d, e \in DOMAIN out : d < e => out[d].idx <= out[e].idx

C5_Witness ==
    /\ pc = "done"
    /\ \E k \in GoodReads : LineShape(catalog[ev[k].idx + 5]).magTenths > DsC.Mag
    /\ \E d \in Symbols : out[d].idx = 2 /\ 2 \in {ev[k].idx : k \in GoodReads}

----------------------------------------------------------------------------
(* C6: the catalog of 5 header records and two stars of magnitude 2.0 and  *)
(* 9.0, both read, drawn with limiting magnitude 6.5.                      *)
C6_Scenario ==
    /\ catalog = <<"hdr", "hdr", "hdr", "hdr", "hdr", "polaris", "faint">>
    /\ tailBytes = 0
    /\ DsC.Mag = 65
    /\ pc = "done"
    /\ Cardinality(GoodReads) = 2

(* C6 as claimed: the pass makes exactly one drawing call in total.        *)
C6_OneDirective == C6_Scenario => Len(out) = 1

(* C6 as amended: the pass draws one symbol, for the magnitude-2.0 star,   *)
(* and that star's text label: two drawing calls, none for the 9.0 star.   *)
C6_SymbolAndLabel ==
    C6_Scenario =>
        /\ Len(out) = 2
        /\ out[1].kind = "circle" /\ out[1].idx = 1 /\ out[1].mag = 20
        /\ out[2].kind = "text" /\ out[2].idx = 1
        /\ DrawnFor(2) = {}

C6_Witness == C6_Scenario /\ Len(out) = 2 /\ Symbols = {1}

----------------------------------------------------------------------------
(* C7: the symbol size of every drawn star is within [1.0, 8.0]: it is     *)
(* the clamped value of limit - magnitude + 0.5 (limit at most 15.0) or of *)
(* 15.0 - magnitude + 0.5 (otherwise); a point is drawn exactly when the   *)
(* clamped size is 1.0.                                                    *)
C7_SizeClamped ==
    \A d \in Symbols :
        LET u == IF DsC.Mag <= 150 THEN DsC.Mag - out[d].mag + 5
                                   ELSE 150 - out[d].mag + 5
        IN  /\ out[d].sz >= 10 /\ out[d].sz <= 80
            /\ (u \in 10..80 => out[d].sz = u)
            /\ (u < 10 => out[d].sz = 10)
            /\ (u > 80 => out[d].sz = 80)
            /\ (out[d].kind = "point" <=> out[d].sz = 10)

C7_Witness ==
    /\ DsC.Mag = 300
    /\ \E d \in Symbols : out[d].sz = 80 /\ 150 - out[d].mag + 5 > 80
    /\ \E d \in Symbols : out[d].kind = "point" /\ 150 - out[d].mag + 5 < 10

----------------------------------------------------------------------------
(* C8: the label of a record a read returns, and the text of a label       *)
(* drawn, is the record's 17-byte label field without its trailing         *)
(* spaces: "Polaris" and 10 spaces give "Polaris".                         *)
RECURSIVE TrimRight(_)
TrimRight(s) ==
    IF s # <<>> /\ s[Len(s)] = " " THEN TrimRight(SubSeq(s, 1, Len(s) - 1)) ELSE s

C8_LabelTrimmed ==
    /\ \A k \in GoodReads :
         k = Len(ev) => Star.Label = TrimRight(SubSeq(RecordOf(ev[k].idx), 1, 17))
    /\ \A d \in DOMAIN out :
         (out[d].kind = "text" /\ \E k \in GoodReads : ev[k].idx = out[d].idx)
            => out[d].label = TrimRight(SubSeq(RecordOf(out[d].idx), 1, 17))

----------------------------------------------------------------------------
(* C9 as claimed: a read of star i seeks to (i + 4) * 61 and reads exactly *)
(* 61 bytes, the whole of on-disk record i + 5, inside the validated       *)
(* length.                                                                 *)
C9_ReadsWholeRecord ==
    \A k \in GoodReads :
        /\ ev[k].off = (ev[k].idx + 4) * 61
        /\ ev[k].used = 61
        /\ ev[k].off + ev[k].used <= floc

(* C9 as amended: a read of star i, i in 1..starCount, seeks to            *)
(* (i + 4) * 61 and reads at most 60 characters of on-disk record i + 5    *)
(* (fewer only when the last one read is a newline; all 61 bytes of the    *)
(* record are taken only when it ends in CR LF and the stream is text),    *)
(* never a header record and never past the validated length.              *)
C9_ReadsWithinRecord ==
    \A k \in Reads :
        /\ ev[k].idx \in 1..DsC.Stars
        /\ ev[k].off = (ev[k].idx + 4) * 61
        /\ ev[k].off >= 5 * 61
        /\ ev[k].ok =>
             /\ ev[k].n \in 1..60
             /\ ev[k].used \in {ev[k].n, ev[k].n + 1}
             /\ ev[k].off + ev[k].used <= (ev[k].idx + 5) * 61
             /\ (ev[k].idx + 5) * 61 <= floc
             /\ floc = StoreLen
             /\ ev[k].n < 60 => RecordOf(ev[k].idx)[ev[k].used] = "LF"
             /\ ev[k].used > ev[k].n =>
                    /\ textMode
                    /\ RecordOf(ev[k].idx)[ev[k].used - 1] = "CR"
                    /\ RecordOf(ev[k].idx)[ev[k].used] = "LF"

C9_Witness ==
    /\ \E k \in GoodReads : ev[k].n = 60 /\ ev[k].used = 61 /\ ev[k].idx = DsC.Stars
    /\ \E k \in GoodReads : ev[k].n = 59 /\ ev[k].used = 59

----------------------------------------------------------------------------
(* C10 as claimed: the pixel position is the screen position rounded to    *)
(* the nearest integer.                                                    *)
Round(q) == IF q >= 0 THEN (q + 2) \div 4 ELSE -((2 - q) \div 4)

C10_Rounds ==
    \A d \in Symbols : out[d].x = Round(out[d].qx) /\ out[d].y = Round(out[d].qy)

(* C10 as amended: the pixel position is the screen position with its      *)
(* fraction discarded (truncated toward zero), for positive and negative   *)
(* positions alike.                                                        *)
IsTruncation(n, q) ==
    IF q >= 0 THEN 4 * n <= q /\ q < 4 * n + 4
              ELSE 4 * n - 4 < q /\ q <= 4 * n

C10_Truncates ==
    /\ \A d \in Symbols :
         IsTruncation(out[d].x, out[d].qx) /\ IsTruncation(out[d].y, out[d].qy)
    /\ Symbols # {} =>
         LET last == CHOOSE d \in Symbols : \A e \in Symbols : e <= d
         IN  DsC.CX = out[last].x /\ DsC.CY = out[last].y

C10_Witness ==
    \E d \in Symbols :
        /\ out[d].qx < 0 /\ out[d].qx % 4 # 0 /\ out[d].x = 0
        /\ out[d].qy > 0 /\ out[d].qy % 4 = 2

====
